---- MODULE Spec2Model ----
(***************************************************************************)
(* The control core of the amp editor, src/models/application/mod.rs:      *)
(*   - Application::run and its render / wait_for_event / exit-check loop, *)
(*     fed by an mpsc event queue (specification Spec);                    *)
(*   - Application::new and create_workspace, the session bootstrap from   *)
(*     the startup arguments (specification BootSpec).                     *)
(* Collaborators that live outside this file (commands::handle_input, the  *)
(* presenters, OpenMode, the scribe workspace, the file system) are        *)
(* modelled by their contract, every outcome they can return being a       *)
(* nondeterministic choice.                                                *)
(***************************************************************************)
EXTENDS Integers, Sequences, FiniteSets, TLC

\* ------------------------------------------------------------------ bounds

\* Events ever placed on the queue in one behaviour.
MaxEvents == 3
\* Entries into Open mode (each spawns one background indexing task).
MaxEntries == 2
\* Startup arguments after the executable path.
MaxArgs == 2

\* ------------------------------------------------------------- value sets

Keys == {"k1", "k2"}
HandlerErrors == {"e1", "e2"}
DrawErrors == {"d1"}
NoError == "none"
NoKey == "none"
Queries == {"", "q"}

\* enum Mode
Tags ==
  {"Confirm", "Command", "Exit", "Insert", "Jump", "LineJump", "Path",
   "Normal", "Open", "Select", "SelectLine", "Search", "SymbolJump", "Theme"}

\* The variants whose payload answers insert_mode().
InsertTags == {"Command", "SymbolJump", "Open", "Theme", "Search"}

\* OpenMode::search: the results are those of the installed index (0: none
\* installed yet) for the query held at the moment of the call.
Search(index, query) == [index |-> index, query |-> query]

NoResults == [index |-> 0, query |-> ""]

\* A Mode value: the variant and its payload. entry names the Open-mode
\* instance (0 for every other variant), index the installed index.
ModeValue(tag, insert, entry, index, query, results) ==
  [tag |-> tag, insert |-> insert, entry |-> entry, index |-> index,
   query |-> query, results |-> results]

\* A mode as its constructor leaves it.
FreshMode(tag, entry) ==
  ModeValue(tag, tag \in InsertTags, entry, 0, "", NoResults)

\* enum Event. seq is the event's place in the order of sending, given to
\* it by Send (0: not sent).
KeyEvent(k) == [kind |-> "Key", key |-> k, index |-> 0, seq |-> 0]
ResizeEvent == [kind |-> "Resize", key |-> NoKey, index |-> 0, seq |-> 0]
IndexCompleteEvent(i) ==
  [kind |-> "OpenModeIndexComplete", key |-> NoKey, index |-> i, seq |-> 0]
NoEvent == [kind |-> "None", key |-> NoKey, index |-> 0, seq |-> 0]


\* ------------------------------------------------------------------ state

VARIABLES
  \* struct Application
  mode,          \* self.mode
  workspace,     \* self.workspace (the Session)
  clipboard,     \* self.clipboard
  error,         \* self.error, the pending error (NoError: None)
  last_key,      \* self.view.last_key
  queue,         \* the mpsc channel between event_channel and events
  \* Application::run
  pc,            \* "render" | "wait" | "check" | "done" | "panic"
  event,         \* the event wait_for_event received last
  hi_result,     \* what handle_input returned last ("none": not called yet)
  drawn,         \* what present() returned in the last render
  shown,         \* the error the last frame shows on the status line
  \* the background indexing tasks and the Open-mode entries so far
  indexing, entries,
  \* history: the events sent, the events received, the renders begun
  sent, received, renders,
  \* Application::new / create_workspace
  bpc,           \* the position in Application::new
  args,          \* the arguments after the executable path
  fs,            \* the file system
  cwd,           \* the process's working directory
  initial_dir,   \* create_workspace's initial_dir
  workspace_dir, \* create_workspace's workspace_dir
  path_args,     \* the arguments the iterator has still to yield
  view_buffers,  \* the buffers view.initialize_buffer has prepared
  opened,        \* history: the positions in args a buffer was created for
  preferences,   \* the Preferences initialize_preferences produced
  repository,    \* self.repository
  boot_error     \* the failure Application::new returns (NoError: none)

runvars ==
  <<mode, clipboard, error, last_key, queue, pc, event, hi_result, drawn,
    shown, indexing, entries, sent, received, renders>>

bootvars ==
  <<bpc, args, fs, cwd, initial_dir, workspace_dir, path_args, view_buffers,
    opened, preferences, repository, boot_error>>

vars == <<runvars, workspace, bootvars>>

\* ---------------------------------------------------------------- Session

\* A buffer: its path and its text.
BufferValue(path, data) == [path |-> path, data |-> data]

\* A scribe Workspace: its root, its buffers, the index of the current
\* buffer (0: none), and whether the user syntaxes were loaded and linked.
\* Workspace::new starts with no buffer and none current.
WorkspaceNew(path) ==
  [path |-> path, buffers |-> <<>>, current |-> 0, syntaxes |-> "default"]

\* Workspace::current_buffer
CurrentBuffer(ws) ==
  IF ws.current = 0 THEN BufferValue(<<>>, "none") ELSE ws.buffers[ws.current]

\* Workspace::add_buffer inserts the buffer after the current one and
\* selects it.
AddBuffer(ws, buffer) ==
  LET at == ws.current + 1
      before == SubSeq(ws.buffers, 1, ws.current)
      after == SubSeq(ws.buffers, at, Len(ws.buffers))
  IN [ws EXCEPT !.buffers = before \o <<buffer>> \o after, !.current = at]

\* The sessions the run loop is started with and that input handling may
\* leave behind: no buffer, and one new buffer.
RunSessions ==
  LET ws == [WorkspaceNew(<<"w">>) EXCEPT !.syntaxes = "linked"]
  IN {ws, AddBuffer(ws, BufferValue(<<"w", "n">>, ""))}

Clipboards == {"empty", "inline"}

\* ------------------------------------------------------- Application::run

\* A receiver that yields the newest event instead of the oldest.
RecvNewest(q) == Len(q)

\* Receiver::recv yields the oldest event of the channel.
RecvIndex(q) == 1

RemoveAt(q, i) == SubSeq(q, 1, i - 1) \o SubSeq(q, i + 1, Len(q))

\* A render that lets the pending error hide a drawing failure.
PendingFirst(present_result, pending) ==
  IF pending # NoError THEN pending
  ELSE IF present_result # "ok" THEN present_result
  ELSE NoError

\* Application::render: which error the frame puts on the status line,
\* given what present() returned and the pending error.
RenderShown(present_result, pending) ==
  IF present_result # "ok" THEN present_result
  ELSE IF pending # NoError THEN pending
  ELSE NoError

\* Application::present: what drawing the active mode can return. Exit
\* draws nothing and succeeds.
PresentOutcomes(m) ==
  IF m.tag = "Exit" THEN {"ok"} ELSE {"ok"} \cup DrawErrors

\* Result::err
Err(result) == IF result = "ok" THEN NoError ELSE result

\* A key routing that records a failure but does not clear on success.
KeepOnSuccess(pending, result) ==
  IF result = "ok" THEN pending ELSE result

\* wait_for_event, Event::Key: the pending error after the key is handled.
KeyError(pending, result) == Err(result)

\* A routing that clears the pending error on every event.
ClearedError(pending) == NoError

\* wait_for_event, Event::Resize and Event::OpenModeIndexComplete: the
\* pending error is not assigned.
OtherError(pending) == pending

\* A routing that runs the search before it installs the index, so the
\* results come from the index the mode held until then.
SearchThenInstall(m, index) ==
  IF m.tag = "Open"
  THEN [m EXCEPT !.index = index, !.results = Search(m.index, m.query)]
  ELSE m

\* A routing that installs the index whatever the mode.
InstallAlways(m, index) ==
  [m EXCEPT !.index = index, !.results = Search(index, m.query)]

\* wait_for_event, Event::OpenModeIndexComplete: in Open mode the index is
\* installed and the search is run again; any other mode is left alone.
SetIndexAndSearch(m, index) ==
  IF m.tag = "Open"
  THEN [m EXCEPT !.index = index, !.results = Search(index, m.query)]
  ELSE m

\* A loop whose break is missing.
NeverExit(m) == FALSE

\* Application::run: the exit test that ends the loop.
IsExit(m) == m.tag = "Exit"

\* Option<&'static str>::None
NoLabel == "none"

\* A labelling that does not ask the Open mode whether it takes input.
ModeStrOpenFixed(m) ==
  CASE m.tag \in {"Command", "SymbolJump", "Theme"} ->
         IF m.insert THEN "search_select_insert" ELSE "search_select"
    [] m.tag = "Open" -> "search_select"
    [] m.tag = "Search" -> IF m.insert THEN "search_insert" ELSE "search"
    [] m.tag = "Normal" -> "normal"
    [] m.tag = "Path" -> "path"
    [] m.tag = "Confirm" -> "confirm"
    [] m.tag = "Insert" -> "insert"
    [] m.tag = "Jump" -> "jump"
    [] m.tag = "LineJump" -> "line_jump"
    [] m.tag = "Select" -> "select"
    [] m.tag = "SelectLine" -> "select_line"
    [] m.tag = "Exit" -> NoLabel

\* Application::mode_str
ModeStr(m) ==
  CASE m.tag = "Command" ->
         IF m.insert THEN "search_select_insert" ELSE "search_select"
    [] m.tag = "SymbolJump" ->
         IF m.insert THEN "search_select_insert" ELSE "search_select"
    [] m.tag = "Open" ->
         IF m.insert THEN "search_select_insert" ELSE "search_select"
    [] m.tag = "Theme" ->
         IF m.insert THEN "search_select_insert" ELSE "search_select"
    [] m.tag = "Normal" -> "normal"
    [] m.tag = "Path" -> "path"
    [] m.tag = "Confirm" -> "confirm"
    [] m.tag = "Insert" -> "insert"
    [] m.tag = "Jump" -> "jump"
    [] m.tag = "LineJump" -> "line_jump"
    [] m.tag = "Select" -> "select"
    [] m.tag = "SelectLine" -> "select_line"
    [] m.tag = "Search" -> IF m.insert THEN "search_insert" ELSE "search"
    [] m.tag = "Exit" -> NoLabel

\* commands::application::handle_input: the modes input handling can leave
\* behind: the mode as it is, a new mode of any variant (a new Open mode
\* is a new entry), the query/navigation sub-state toggled, and in Open
\* mode a query typed, which runs the search.
HandleInputModes(m, n) ==
  {m}
    \cup {FreshMode(t, 0) : t \in Tags \ {"Open"}}
    \cup (IF n < MaxEntries THEN {FreshMode("Open", n + 1)} ELSE {})
    \cup (IF m.tag \in InsertTags THEN {[m EXCEPT !.insert = ~m.insert]} ELSE {})
    \cup (IF m.tag = "Open"
          THEN {[m EXCEPT !.query = q, !.results = Search(m.index, q)] :
                  q \in Queries}
          ELSE {})

\* An event producer sends on a clone of event_channel.
Send(e) ==
  /\ sent < MaxEvents
  /\ queue' = Append(queue, [e EXCEPT !.seq = sent + 1])
  /\ sent' = sent + 1

\* The input driver sends a key.
SendKey ==
  /\ \E k \in Keys : Send(KeyEvent(k))
  /\ UNCHANGED <<mode, clipboard, error, last_key, pc, event, hi_result,
                 drawn, shown, indexing, entries, received, renders,
                 workspace, bootvars>>

\* The terminal-resize signal.
SendResize ==
  /\ Send(ResizeEvent)
  /\ UNCHANGED <<mode, clipboard, error, last_key, pc, event, hi_result,
                 drawn, shown, indexing, entries, received, renders,
                 workspace, bootvars>>

\* A background indexing task, spawned by an entry into Open mode,
\* finishes and sends the index it built.
IndexComplete ==
  /\ \E e \in indexing :
       /\ Send(IndexCompleteEvent(e))
       /\ indexing' = indexing \ {e}
  /\ UNCHANGED <<mode, clipboard, error, last_key, pc, event, hi_result,
                 drawn, shown, entries, received, renders, workspace,
                 bootvars>>

\* A render that takes the pending error once it has shown it.
ClearedOnceShown(pending, to_show) ==
  IF to_show = pending THEN NoError ELSE pending

\* Application::render: self.error is read (&self.error, `ref error`) and
\* never assigned, whatever was shown.
ErrorAfterRender(pending, to_show) == pending

\* Application::render and render_error. The error to show, if any, is
\* handed to render_error, whose build_presenter().unwrap() panics when no
\* presenter can be built; the results of print and present are not read.
Render ==
  /\ pc = "render"
  /\ renders' = renders + 1
  /\ \E d \in PresentOutcomes(mode), built \in BOOLEAN :
       LET to_show == RenderShown(d, error) IN
       /\ drawn' = d
       /\ error' = ErrorAfterRender(error, to_show)
       /\ IF to_show = NoError
          THEN /\ built
               /\ shown' = NoError
               /\ pc' = "wait"
          ELSE IF built
          THEN /\ shown' = to_show
               /\ pc' = "wait"
          ELSE /\ shown' = NoError
               /\ pc' = "panic"
  /\ UNCHANGED <<mode, clipboard, last_key, queue, event, hi_result,
                 indexing, entries, sent, received, workspace, bootvars>>

\* Application::wait_for_event: recv blocks while the channel is empty (it
\* cannot fail: the Application itself holds a Sender), then the event is
\* routed.
WaitForEvent ==
  /\ pc = "wait"
  /\ queue # <<>>
  /\ LET i == RecvIndex(queue)
         e == queue[i]
     IN /\ queue' = RemoveAt(queue, i)
        /\ event' = e
        /\ received' = received + 1
        /\ \/ /\ e.kind = "Key"
              /\ last_key' = e.key
              /\ \E m \in HandleInputModes(mode, entries),
                    ws \in RunSessions, cb \in Clipboards,
                    r \in {"ok"} \cup HandlerErrors :
                   /\ mode' = m
                   /\ workspace' = ws
                   /\ clipboard' = cb
                   /\ hi_result' = r
                   /\ error' = KeyError(error, r)
                   /\ IF m.tag = "Open" /\ m.entry = entries + 1
                      THEN /\ entries' = entries + 1
                           /\ indexing' = indexing \cup {entries + 1}
                      ELSE UNCHANGED <<entries, indexing>>
           \/ /\ e.kind = "Resize"
              /\ error' = OtherError(error)
              /\ UNCHANGED <<mode, workspace, clipboard, last_key,
                             hi_result, entries, indexing>>
           \/ /\ e.kind = "OpenModeIndexComplete"
              /\ mode' = SetIndexAndSearch(mode, e.index)
              /\ error' = OtherError(error)
              /\ UNCHANGED <<workspace, clipboard, last_key, hi_result,
                             entries, indexing>>
  /\ pc' = "check"
  /\ UNCHANGED <<drawn, shown, sent, renders, bootvars>>

\* Application::run: break when the mode is Exit, else loop.
CheckExit ==
  /\ pc = "check"
  /\ pc' = IF IsExit(mode) THEN "done" ELSE "render"
  /\ UNCHANGED <<mode, clipboard, error, last_key, queue, event, hi_result,
                 drawn, shown, indexing, entries, sent, received,
                 renders, workspace, bootvars>>

\* ------------------------------------------------- paths and file system

\* A path argument: relative or absolute, and its components.
Rel(comps) == [abs |-> FALSE, comps |-> comps]
Abs(comps) == [abs |-> TRUE, comps |-> comps]

\* args[0], the executable path.
ExeArg == Abs(<<"bin", "amp">>)

\* The working directory the process is started in.
StartDir == <<"w">>

\* The arguments tried: ".", a directory, a symbolic link to it, a file, a
\* name that does not exist, and absolute paths of the three kinds.
ArgTokens ==
  {Rel(<<".">>), Rel(<<"d">>), Rel(<<"l">>), Rel(<<"f">>), Rel(<<"n">>),
   Abs(<<"w", "d">>), Abs(<<"w", "f">>), Abs(<<"w", "n">>)}

\* /w/l is a symbolic link to /w/d.
LinkPath == <<"w", "l">>
LinkTarget == <<"w", "d">>

\* The file systems tried: /w always is a directory; /w/d is a directory
\* or missing; /w/f and /w/d/f are files or missing.
FileSystems ==
  {f \in [{<<"w", "d">>, <<"w", "f">>, <<"w", "d", "f">>} ->
            {"dir", "file", "none"}] :
     /\ f[<<"w", "d">>] \in {"dir", "none"}
     /\ f[<<"w", "f">>] \in {"file", "none"}
     /\ f[<<"w", "d", "f">>] \in {"file", "none"}
     /\ f[<<"w", "d", "f">>] = "file" => f[<<"w", "d">>] = "dir"}

\* What a file holds.
FileContent(p) ==
  IF p = <<"w", "f">> THEN "abc"
  ELSE IF p = <<"w", "d", "f">> THEN "xyz"
  ELSE "?"

\* Path::join: an absolute argument replaces the base.
Join(base, arg) == IF arg.abs THEN arg.comps ELSE base \o arg.comps

\* The canonical form of an absolute path: "." components dropped and the
\* symbolic link followed.
RECURSIVE Canonical(_)
Canonical(p) ==
  IF p = <<>> THEN <<>>
  ELSE LET front == Canonical(SubSeq(p, 1, Len(p) - 1))
           c == p[Len(p)]
           q == Append(front, c)
       IN IF c = "." THEN front
          ELSE IF q = LinkPath THEN LinkTarget
          ELSE q

\* What an absolute canonical path names.
Kind(f, p) ==
  IF p \in {<<>>, StartDir} THEN "dir"
  ELSE IF p \in DOMAIN f THEN f[p]
  ELSE "none"

\* Path::canonicalize, Path::is_dir and Path::exists of an argument: the
\* operating system resolves it against the working directory.
Canonicalize(dir, arg) == Canonical(Join(dir, arg))
IsDir(f, dir, arg) == Kind(f, Canonicalize(dir, arg)) = "dir"
Exists(f, dir, arg) == Kind(f, Canonicalize(dir, arg)) # "none"

\* Buffer::from_file: the buffer of an existing file holds its canonical
\* path and its content.
FromFile(dir, arg) ==
  BufferValue(Canonicalize(dir, arg), FileContent(Canonicalize(dir, arg)))

\* A new buffer pointed to the argument as given, not made absolute.
PathAsGiven(ws, arg) == BufferValue(arg.comps, "")

\* create_workspace: the new buffer of an argument that names nothing,
\* pointed to the argument, made absolute against the workspace path.
NewBufferFor(ws, arg) ==
  BufferValue(IF arg.abs THEN arg.comps ELSE Join(ws.path, arg), "")

\* A bootstrap that never reads the file an argument names.
AlwaysNewBuffer(f, dir, ws, arg) == NewBufferFor(ws, arg)

\* create_workspace: the buffer an argument is opened into.
ArgumentBuffer(f, dir, ws, arg) ==
  IF Exists(f, dir, arg) THEN FromFile(dir, arg) ELSE NewBufferFor(ws, arg)

\* Iterator::skip(1)
Skip1(s) == IF s = <<>> THEN <<>> ELSE Tail(s)

\* No Session: before Workspace::new, and after a failure has dropped it.
NoSession == WorkspaceNew(<<"unset">>)

\* --------------------------------- Application::new and create_workspace

\* A `?` (or bail!) returns the failure; the Session built so far is
\* dropped and no Application is produced.
BootFail(cause) ==
  /\ bpc' = "failed"
  /\ boot_error' = cause
  /\ workspace' = NoSession

\* create_workspace: the first argument names a directory to move into.
ChangesDirectory(f, dir, rest) == rest # <<>> /\ IsDir(f, dir, Head(rest))

\* A bootstrap that skips the first argument whatever it names.
AlwaysSkips(ws_dir, init_dir) == TRUE

\* A bootstrap that does not skip the directory it moved into.
NeverSkips(ws_dir, init_dir) == FALSE

\* create_workspace: the first argument was a directory that has been
\* moved into, and is skipped before the file arguments are read.
SkipsFirst(ws_dir, init_dir) == ws_dir # init_dir

\* Application::new: the preferences are loaded, or the defaults taken when
\* loading fails; the channel is made; View::new builds the rendering
\* surface or fails.
NewView ==
  /\ bpc = "new"
  /\ \E loaded \in BOOLEAN :
       preferences' = IF loaded THEN "loaded" ELSE "default"
  /\ \/ /\ bpc' = "initial_dir"
        /\ path_args' = Skip1(args)
        /\ UNCHANGED <<workspace, boot_error>>
     \/ /\ BootFail("view")
        /\ UNCHANGED path_args
  /\ UNCHANGED <<runvars, args, fs, cwd, initial_dir, workspace_dir,
                 view_buffers, opened, repository>>

\* create_workspace: let initial_dir = env::current_dir()?
InitialDir ==
  /\ bpc = "initial_dir"
  /\ \/ /\ initial_dir' = cwd
        /\ bpc' = "enter"
        /\ UNCHANGED <<workspace, boot_error>>
     \/ /\ BootFail("current_dir")
        /\ UNCHANGED initial_dir
  /\ UNCHANGED <<runvars, args, fs, cwd, workspace_dir, path_args,
                 view_buffers, opened, preferences, repository>>

\* create_workspace: move into the directory the first argument names, if
\* it names one: env::set_current_dir(path.canonicalize()?)?
EnterDirectory ==
  /\ bpc = "enter"
  /\ IF ChangesDirectory(fs, cwd, path_args)
     THEN \/ /\ cwd' = Canonicalize(cwd, Head(path_args))
             /\ bpc' = "workspace_dir"
             /\ UNCHANGED <<workspace, boot_error>>
          \/ /\ \E cause \in {"canonicalize", "set_current_dir"} :
                  BootFail(cause)
             /\ UNCHANGED cwd
     ELSE /\ bpc' = "workspace_dir"
          /\ UNCHANGED <<cwd, workspace, boot_error>>
  /\ UNCHANGED <<runvars, args, fs, initial_dir, workspace_dir, path_args,
                 view_buffers, opened, preferences, repository>>

\* create_workspace: let workspace_dir = env::current_dir()?;
\* let mut workspace = Workspace::new(&workspace_dir)?
NewWorkspace ==
  /\ bpc = "workspace_dir"
  /\ \/ /\ workspace_dir' = cwd
        /\ workspace' = WorkspaceNew(cwd)
        /\ bpc' = "syntaxes"
        /\ UNCHANGED boot_error
     \/ /\ \E cause \in {"current_dir", "workspace"} : BootFail(cause)
        /\ UNCHANGED workspace_dir
  /\ UNCHANGED <<runvars, args, fs, cwd, initial_dir, path_args,
                 view_buffers, opened, preferences, repository>>

\* A bootstrap that swallows a failure to load the user syntax definitions
\* and goes on to the file arguments with the default definitions.
LoadSyntaxesSwallow ==
  /\ bpc = "syntaxes"
  /\ \/ /\ workspace' = [workspace EXCEPT !.syntaxes = "linked"]
        /\ bpc' = "skip"
        /\ UNCHANGED boot_error
     \/ /\ bpc' = "skip"
        /\ UNCHANGED <<workspace, boot_error>>
     \/ BootFail("syntax_path")
  /\ UNCHANGED <<runvars, args, fs, cwd, initial_dir, workspace_dir,
                 path_args, view_buffers, opened, preferences, repository>>

\* create_workspace: the user syntax definitions are loaded and linked.
LoadSyntaxes ==
  /\ bpc = "syntaxes"
  /\ \/ /\ workspace' = [workspace EXCEPT !.syntaxes = "linked"]
        /\ bpc' = "skip"
        /\ UNCHANGED boot_error
     \/ \E cause \in {"syntax_path", "load_syntaxes"} : BootFail(cause)
  /\ UNCHANGED <<runvars, args, fs, cwd, initial_dir, workspace_dir,
                 path_args, view_buffers, opened, preferences, repository>>

\* create_workspace: if workspace_dir != initial_dir { path_args.next(); }
SkipDirectory ==
  /\ bpc = "skip"
  /\ path_args' = IF SkipsFirst(workspace_dir, initial_dir)
                  THEN Skip1(path_args)
                  ELSE path_args
  /\ bpc' = "files"
  /\ UNCHANGED <<runvars, workspace, args, fs, cwd, initial_dir,
                 workspace_dir, view_buffers, opened, preferences,
                 repository, boot_error>>

\* A loop over the file arguments that passes over an argument whose file
\* cannot be read or whose buffer the view cannot initialize, instead of
\* returning the failure.
OpenArgumentLenient ==
  /\ bpc = "files"
  /\ path_args # <<>>
  /\ LET arg == Head(path_args)
         buffer == ArgumentBuffer(fs, cwd, workspace, arg)
     IN IF IsDir(fs, cwd, arg)
        THEN /\ path_args' = Tail(path_args)
             /\ UNCHANGED <<bpc, workspace, view_buffers, opened, boot_error>>
        ELSE \/ /\ path_args' = Tail(path_args)
                /\ workspace' = AddBuffer(workspace, buffer)
                /\ view_buffers' = Append(view_buffers, buffer)
                /\ opened' = Append(opened, Len(args) - Len(path_args) + 1)
                /\ UNCHANGED <<bpc, boot_error>>
             \/ /\ path_args' = Tail(path_args)
                /\ UNCHANGED <<bpc, workspace, view_buffers, opened,
                               boot_error>>
  /\ UNCHANGED <<runvars, args, fs, cwd, initial_dir, workspace_dir,
                 preferences, repository>>

\* create_workspace: one turn of the loop over the file arguments. A
\* directory is passed over; an existing file is read, which may fail; a
\* name that does not exist gets a new buffer. The buffer is added and the
\* view initializes it, which may fail.
OpenArgument ==
  /\ bpc = "files"
  /\ path_args # <<>>
  /\ LET arg == Head(path_args)
         buffer == ArgumentBuffer(fs, cwd, workspace, arg)
     IN IF IsDir(fs, cwd, arg)
        THEN /\ path_args' = Tail(path_args)
             /\ UNCHANGED <<bpc, workspace, view_buffers, opened, boot_error>>
        ELSE \/ /\ path_args' = Tail(path_args)
                /\ workspace' = AddBuffer(workspace, buffer)
                /\ view_buffers' = Append(view_buffers, buffer)
                /\ opened' = Append(opened, Len(args) - Len(path_args) + 1)
                /\ UNCHANGED <<bpc, boot_error>>
             \/ /\ Exists(fs, cwd, arg)
                /\ BootFail("from_file")
                /\ UNCHANGED <<path_args, view_buffers, opened>>
             \/ /\ BootFail("initialize_buffer")
                /\ UNCHANGED <<path_args, view_buffers, opened>>
  /\ UNCHANGED <<runvars, args, fs, cwd, initial_dir, workspace_dir,
                 preferences, repository>>

\* create_workspace: Ok(workspace)
ReturnWorkspace ==
  /\ bpc = "files"
  /\ path_args = <<>>
  /\ bpc' = "repository"
  /\ UNCHANGED <<runvars, workspace, args, fs, cwd, initial_dir,
                 workspace_dir, path_args, view_buffers, opened,
                 preferences, repository, boot_error>>

\* Application::new: Repository::discover(&env::current_dir()?).ok(), and
\* the Application is built around the Session.
Construct ==
  /\ bpc = "repository"
  /\ \/ /\ \E found \in {"some", "none"} : repository' = found
        /\ bpc' = "constructed"
        /\ UNCHANGED <<workspace, boot_error>>
     \/ /\ BootFail("repository_dir")
        /\ UNCHANGED repository
  /\ UNCHANGED <<runvars, args, fs, cwd, initial_dir, workspace_dir,
                 path_args, view_buffers, opened, preferences>>

\* --------------------------------------------------------- specifications

ArgLists ==
  UNION {[1..n -> ArgTokens] : n \in 0..MaxArgs}

\* The fields Application::new gives the Application it builds.
Constructed ==
  /\ mode = FreshMode("Normal", 0)
  /\ clipboard = "empty"
  /\ error = NoError
  /\ last_key = NoKey
  /\ queue = <<>>
  /\ event = NoEvent
  /\ hi_result = "none"
  /\ drawn = "ok"
  /\ shown = NoError
  /\ indexing = {}
  /\ entries = 0
  /\ sent = 0
  /\ received = 0
  /\ renders = 0

\* The run loop, entered with the Application as Application::new built it.
Init ==
  /\ Constructed
  /\ pc = "render"
  /\ workspace \in RunSessions
  /\ bpc = "constructed"
  /\ args = <<ExeArg>>
  /\ fs \in {f \in FileSystems : \A p \in DOMAIN f : f[p] = "none"}
  /\ cwd = StartDir
  /\ initial_dir = StartDir
  /\ workspace_dir = StartDir
  /\ path_args = <<>>
  /\ view_buffers = workspace.buffers
  /\ opened = <<>>
  /\ preferences = "loaded"
  /\ repository = "none"
  /\ boot_error = NoError

Next ==
  \/ SendKey
  \/ SendResize
  \/ IndexComplete
  \/ Render
  \/ WaitForEvent
  \/ CheckExit

Spec == Init /\ [][Next]_vars

\* Application::new, for every argument list and file system tried.
BootInit ==
  /\ Constructed
  /\ pc = "new"
  /\ workspace = NoSession
  /\ bpc = "new"
  /\ args \in {<<ExeArg>> \o rest : rest \in ArgLists}
  /\ fs \in FileSystems
  /\ cwd = StartDir
  /\ initial_dir = <<"unset">>
  /\ workspace_dir = <<"unset">>
  /\ path_args = <<>>
  /\ view_buffers = <<>>
  /\ opened = <<>>
  /\ preferences = "unset"
  /\ repository = "unset"
  /\ boot_error = NoError

BootNext ==
  \/ NewView
  \/ InitialDir
  \/ EnterDirectory
  \/ NewWorkspace
  \/ LoadSyntaxes
  \/ SkipDirectory
  \/ OpenArgument
  \/ ReturnWorkspace
  \/ Construct

BootSpec == BootInit /\ [][BootNext]_vars

\* ----------------------------------------------------------------- claims

\* C1: the run loop receives the events in the order they were sent (the
\* n-th event received is the n-th event sent, and the queue holds the
\* events sent after it, in that order), and the renders begun number one
\* more than the events received while the loop waits and as many
\* otherwise: one render before the first event and exactly one between
\* two consecutive events, at most one event a turn.
C1_ArrivalOrderOneRender ==
  /\ event.seq = received
  /\ Len(queue) = sent - received
  /\ \A i \in 1..Len(queue) : queue[i].seq = received + i
  /\ renders = received + (IF pc \in {"wait", "panic"} THEN 1 ELSE 0)

\* The second event sent, a Resize sent after a key, is received second,
\* after two renders, while a third event waits in the queue.
C1_Witness ==
  /\ pc = "check"
  /\ received = 2
  /\ event.kind = "Resize"
  /\ event.seq = 2
  /\ last_key \in Keys
  /\ Len(queue) = 1
  /\ renders = 2

\* C2: the mode is Exit only when the loop is at its exit check or has
\* returned, and the loop has returned only with the mode Exit; from the
\* exit check with mode Exit the loop only returns; once the mode is Exit
\* it stays Exit and no event is received or routed any more, whatever is
\* queued.
C2_ExitEndsLoop ==
  /\ [](mode.tag = "Exit" => pc \in {"check", "done"})
  /\ [](pc = "done" => mode.tag = "Exit")
  /\ [][(pc = "check" /\ mode.tag = "Exit") => pc' \in {"check", "done"}]_vars
  /\ [][mode.tag = "Exit" =>
          /\ mode' = mode
          /\ received' = received
          /\ event' = event
          /\ Len(queue') >= Len(queue)
          /\ UNCHANGED <<workspace, clipboard, error, last_key>>]_vars

\* The loop has returned while events are still queued.
C2_Witness ==
  /\ pc = "done"
  /\ mode.tag = "Exit"
  /\ Len(queue) >= 2

\* C3: in the frame of every render that completed, the status line shows
\* the drawing failure if drawing failed (and not the pending error),
\* else the pending error if there is one, else no error.
C3_RenderPriority ==
  pc = "wait" =>
    /\ drawn \in DrawErrors => shown = drawn
    /\ (drawn = "ok" /\ error # NoError) => shown = error
    /\ (drawn = "ok" /\ error = NoError) => shown = NoError

\* A frame whose drawing failed while an error was pending.
C3_Witness ==
  /\ pc = "wait"
  /\ drawn \in DrawErrors
  /\ error \in HandlerErrors
  /\ shown = drawn

\* C4: when a Key event has been routed, the pending error is the failure
\* input handling returned for it, and none if it returned success.
C4_KeySetsPendingError ==
  (pc = "check" /\ event.kind = "Key") =>
    /\ hi_result \in HandlerErrors => error = hi_result
    /\ hi_result = "ok" => error = NoError
    /\ hi_result \in HandlerErrors \cup {"ok"}

\* A key handled with success right after a frame that showed a pending
\* error: the error that was pending is gone.
C4_Witness ==
  /\ pc = "check"
  /\ event.kind = "Key"
  /\ hi_result = "ok"
  /\ error = NoError
  /\ drawn = "ok"
  /\ shown \in HandlerErrors

\* C5 as stated: after any event has been routed, a pending error exists
\* only if handling that very event failed.
C5_PendingErrorOfThisEvent ==
  (pc = "check" /\ error # NoError) =>
    (event.kind = "Key" /\ hi_result = error)

\* C5 as amended: the pending error is always the outcome of the most
\* recent call of input handling, that is of the last Key event routed:
\* its failure, or none (also when no key was handled yet). Resize and
\* OpenModeIndexComplete events leave it as it was.
C5_PendingErrorOfLastKey ==
  /\ hi_result \in HandlerErrors => error = hi_result
  /\ hi_result \in {"ok", "none"} => error = NoError

\* A Resize event routed while the error of an earlier key is pending.
C5_Witness ==
  /\ pc = "check"
  /\ event.kind = "Resize"
  /\ error \in HandlerErrors
  /\ hi_result = error

\* C6: the step that receives an OpenModeIndexComplete event while the
\* mode is not Open leaves mode, Session, pending error, last key and
\* clipboard as they were, and returns to the exit check of the loop.
C6_StaleIndexDiscarded ==
  [][(/\ pc = "wait"
      /\ received' # received
      /\ event'.kind = "OpenModeIndexComplete"
      /\ mode.tag # "Open")
     => /\ mode' = mode
        /\ workspace' = workspace
        /\ error' = error
        /\ last_key' = last_key
        /\ clipboard' = clipboard
        /\ pc' = "check"]_vars

\* A completion event routed after Open mode was left, with an error
\* pending and a key recorded.
C6_Witness ==
  /\ pc = "check"
  /\ event.kind = "OpenModeIndexComplete"
  /\ mode.tag # "Open"
  /\ mode.index = 0
  /\ error \in HandlerErrors
  /\ last_key \in Keys

\* C7 as stated: no render raises a fatal failure.
C7_RenderNeverFatal == pc # "panic"

\* create_workspace has returned a Session.
SessionReturned == bpc \in {"repository", "constructed"}

\* The first argument after the executable path names a directory, seen
\* from the directory the process was started in.
FirstIsDirectory == Len(args) >= 2 /\ IsDir(fs, StartDir, args[2])

\* The position in args holds a file argument: it is not the directory
\* argument in first place and, seen from the Session root, names no
\* directory.
IsFileArgument(i) ==
  /\ ~(i = 2 /\ FirstIsDirectory)
  /\ ~IsDir(fs, workspace.path, args[i])

\* The positions of the file arguments, in argument order.
FileArguments ==
  SelectSeq([k \in 1..(Len(args) - 1) |-> k + 1], IsFileArgument)

\* C8: when create_workspace returns a Session, its root is the working
\* directory, it holds one buffer for every file argument, in order, each
\* handed to the view, and no argument is left unread; when it returns a
\* failure, no Session is returned.
C8_SessionCompleteOrNone ==
  /\ SessionReturned =>
       /\ workspace.path = cwd
       /\ workspace.path # NoSession.path
       /\ workspace.syntaxes = "linked"
       /\ opened = FileArguments
       /\ Len(workspace.buffers) = Len(opened)
       /\ view_buffers = workspace.buffers
       /\ path_args = <<>>
       /\ boot_error = NoError
  /\ bpc = "failed" => workspace = NoSession /\ boot_error # NoError

\* Bootstrap failed reading the second file argument after a buffer had
\* been created for the first: nothing is returned.
C8_Witness ==
  /\ bpc = "failed"
  /\ boot_error = "from_file"
  /\ opened = <<2>>
  /\ Len(args) = 3
  /\ workspace = NoSession

\* C9: when the first argument names an existing directory, the root of
\* the Session returned is that directory's canonical form and no buffer
\* was created for that argument.
C9_DirectoryArgumentIsRoot ==
  (SessionReturned /\ FirstIsDirectory) =>
    /\ workspace.path = Canonicalize(StartDir, args[2])
    /\ \A j \in 1..Len(opened) : opened[j] # 2
    /\ Len(workspace.buffers) <= Len(args) - 2

\* The first argument is ".", the directory the process is already in, and
\* a second argument got its buffer.
C9_Witness ==
  /\ bpc = "constructed"
  /\ Len(args) = 3
  /\ args[2] = Rel(<<".">>)
  /\ workspace.path = StartDir
  /\ opened = <<3>>

\* C10: when a Session is returned, every file argument that names an
\* existing regular file (seen from the Session root, the working
\* directory when the file arguments are read) has a buffer holding that
\* file's content and its canonical path; when it is the only argument,
\* that buffer is the current one.
C10_ExistingFileLoaded ==
  SessionReturned =>
    \A i \in 2..Len(args) :
      LET file == Canonicalize(workspace.path, args[i]) IN
      (IsFileArgument(i) /\ Kind(fs, file) = "file") =>
        /\ \E j \in 1..Len(opened) :
             /\ opened[j] = i
             /\ j <= Len(workspace.buffers)
             /\ workspace.buffers[j] = BufferValue(file, FileContent(file))
        /\ Len(args) = 2 =>
             CurrentBuffer(workspace) = BufferValue(file, FileContent(file))

\* The only argument names the existing file /w/f, whose content "abc" the
\* current buffer holds.
C10_Witness ==
  /\ bpc = "constructed"
  /\ args = <<ExeArg, Rel(<<"f">>)>>
  /\ workspace.current = 1
  /\ CurrentBuffer(workspace) = BufferValue(<<"w", "f">>, "abc")

\* C11: when a Session is returned, every file argument that names
\* nothing (seen from the Session root) has a buffer with empty content
\* whose path is the argument itself when it is absolute and the Session
\* root joined with it when it is relative; and bootstrap never fails
\* reading a file for an argument that names nothing.
C11_MissingFileNewBuffer ==
  /\ SessionReturned =>
       \A i \in 2..Len(args) :
         (IsFileArgument(i)
            /\ Kind(fs, Canonicalize(workspace.path, args[i])) = "none") =>
           \E j \in 1..Len(opened) :
             /\ opened[j] = i
             /\ j <= Len(workspace.buffers)
             /\ workspace.buffers[j].data = ""
             /\ workspace.buffers[j].path =
                  IF args[i].abs THEN args[i].comps
                  ELSE workspace.path \o args[i].comps
  /\ (bpc = "failed" /\ boot_error = "from_file") =>
       Kind(fs, Canonicalize(cwd, Head(path_args))) = "file"

\* The first argument is a directory that was entered, the second names
\* nothing: its buffer points into the directory entered.
C11_Witness ==
  /\ bpc = "constructed"
  /\ args = <<ExeArg, Rel(<<"d">>), Rel(<<"n">>)>>
  /\ workspace.path = <<"w", "d">>
  /\ workspace.buffers = <<BufferValue(<<"w", "d", "n">>, "")>>

\* The failures of the Session bootstrap, create_workspace.
SessionFailures ==
  {"current_dir", "canonicalize", "set_current_dir", "workspace",
   "syntax_path", "load_syntaxes", "from_file", "initialize_buffer"}

\* C12 as stated: Application::new fails only when the rendering surface
\* cannot be created or the Session cannot be resolved; whether the
\* preferences were loaded or defaulted, no other step makes it fail.
C12_FailsOnlyForViewOrSession ==
  bpc = "failed" => boot_error \in {"view"} \cup SessionFailures

\* The mode with its payload reset, but for whether it takes query input.
PayloadReset(m) == ModeValue(m.tag, m.insert, 0, 0, "", NoResults)

\* C13 as stated: mode_str returns a label for every Mode variant.
C13_LabelForEveryMode == ModeStr(mode) # NoLabel

\* C13 as amended: mode_str returns a label for every Mode variant but
\* Exit, for which it returns none; the label of Command, SymbolJump, Open,
\* Theme and Search is one of two values, chosen by insert_mode alone, and
\* the label of every other variant does not depend on its payload.
C13_LabelForEveryModeButExit ==
  /\ mode.tag = "Exit" <=> ModeStr(mode) = NoLabel
  /\ ModeStr(mode) = ModeStr(PayloadReset(mode))
  /\ mode.tag \in InsertTags =>
       /\ ModeStr([mode EXCEPT !.insert = TRUE])
            # ModeStr([mode EXCEPT !.insert = FALSE])
       /\ ModeStr([mode EXCEPT !.insert = TRUE]) # NoLabel
       /\ ModeStr([mode EXCEPT !.insert = FALSE]) # NoLabel
  /\ mode.tag \notin InsertTags =>
       ModeStr(mode) = ModeStr([mode EXCEPT !.insert = ~mode.insert])

\* An Open mode that holds an index and navigates its results: its label
\* is the second of the two.
C13_Witness ==
  /\ mode.tag = "Open"
  /\ ~mode.insert
  /\ mode.index # 0
  /\ ModeStr(mode) = "search_select"

\* The path of the buffer bootstrap is to create for the file argument at
\* a position: the canonical path of the file it names, or the argument
\* made absolute when it names nothing.
ExpectedPath(i) ==
  LET file == Canonicalize(workspace.path, args[i]) IN
  IF Kind(fs, file) = "file" THEN file
  ELSE IF args[i].abs THEN args[i].comps
  ELSE workspace.path \o args[i].comps

\* C14: when a Session is returned it holds exactly one buffer for every
\* argument that does not name an existing directory when bootstrap
\* examines it (the first argument from the starting directory, every
\* argument from the Session root), in argument order; the buffer of the
\* last such argument is the current one, and there is none when there is
\* no such argument; no buffer is the buffer of an existing directory.
C14_OneBufferPerFileArgument ==
  SessionReturned =>
    /\ Len(workspace.buffers) = Len(FileArguments)
    /\ workspace.current = Len(FileArguments)
    /\ \A j \in 1..Len(FileArguments) :
         /\ j <= Len(workspace.buffers)
         /\ workspace.buffers[j].path = ExpectedPath(FileArguments[j])
         /\ Kind(fs, Canonical(workspace.buffers[j].path)) # "dir"
    /\ FileArguments = <<>> => CurrentBuffer(workspace).data = "none"
    /\ FileArguments # <<>> =>
         CurrentBuffer(workspace).path =
           ExpectedPath(FileArguments[Len(FileArguments)])

\* A name that does not exist and then an existing file: two buffers in
\* that order, the file's buffer current.
C14_Witness ==
  /\ bpc = "constructed"
  /\ args = <<ExeArg, Rel(<<"n">>), Rel(<<"f">>)>>
  /\ Len(workspace.buffers) = 2
  /\ workspace.buffers[1].path = <<"w", "n">>
  /\ CurrentBuffer(workspace) = BufferValue(<<"w", "f">>, "abc")

\* The invariant part of C15.
SyntaxesLinkedOrFailed ==
  /\ bpc \in {"skip", "files", "repository", "constructed"} =>
       workspace.syntaxes = "linked"
  /\ workspace.buffers # <<>> => workspace.syntaxes = "linked"
  /\ boot_error \in {"syntax_path", "load_syntaxes"} =>
       /\ bpc = "failed"
       /\ view_buffers = <<>>
       /\ opened = <<>>
       /\ workspace.buffers = <<>>

\* C15: in every bootstrap run the user syntax definitions are loaded and
\* linked before the first buffer is created: every step that adds a buffer
\* to the Session or hands one to the view starts in a state where they
\* are linked, and they are linked in every state past the loading step.
\* When loading them fails bootstrap has failed with that failure, and no
\* buffer has been created or handed to the view.
C15_SyntaxesBeforeBuffers ==
  /\ []SyntaxesLinkedOrFailed
  /\ [][(view_buffers' # view_buffers \/ opened' # opened
         \/ Len(workspace'.buffers) > Len(workspace.buffers))
        => workspace.syntaxes = "linked"]_vars

\* Loading the syntax definitions fails in a run given an existing file.
C15_Witness ==
  /\ boot_error = "load_syntaxes"
  /\ bpc = "failed"
  /\ Len(args) = 2
  /\ Kind(fs, Canonicalize(StartDir, args[2])) = "file"

\* C16: the step that receives an OpenModeIndexComplete(index) event while
\* the mode is Open installs that index into the Open mode and then runs
\* the search of the query the mode holds at that moment against the index
\* just installed; the mode stays Open with its query, its entry and its
\* query/navigation sub-state, and the pending error is as it was.
C16_IndexInstalledThenSearched ==
  [][(/\ pc = "wait"
      /\ received' # received
      /\ event'.kind = "OpenModeIndexComplete"
      /\ mode.tag = "Open")
     => /\ mode'.tag = "Open"
        /\ mode'.index = event'.index
        /\ mode'.results = Search(event'.index, mode.query)
        /\ mode'.query = mode.query
        /\ mode'.entry = mode.entry
        /\ mode'.insert = mode.insert
        /\ error' = error]_vars

\* A completion event routed in Open mode after a query was typed and the
\* key that typed it left an error pending: the results are those of the
\* typed query on the completed index.
C16_Witness ==
  /\ pc = "check"
  /\ event.kind = "OpenModeIndexComplete"
  /\ mode.tag = "Open"
  /\ mode.query = "q"
  /\ mode.index = event.index
  /\ mode.index # 0
  /\ mode.results = Search(mode.index, "q")
  /\ error \in HandlerErrors

\* C17 as stated: an Open mode holds no index (its entry's completion has
\* not been routed) or the index its own entry's indexing task produced: a
\* completion of an entry the user has left is never installed, whatever
\* the interleaving of keys and completions.
C17_OnlyOwnCompletionInstalled ==
  mode.tag = "Open" => mode.index \in {0, mode.entry}

\* C18: the step that receives a Resize event performs no core-level
\* action: the mode with its payload, the Session, the pending error, the
\* last key and the clipboard are as they were; the loop goes to its exit
\* check, where the mode is not Exit, and from there to the next render.
C18_ResizeNoCoreAction ==
  /\ [][(/\ pc = "wait"
         /\ received' # received
         /\ event'.kind = "Resize")
        => /\ mode' = mode
           /\ workspace' = workspace
           /\ error' = error
           /\ last_key' = last_key
           /\ clipboard' = clipboard
           /\ pc' = "check"]_vars
  /\ [][(pc = "check" /\ event.kind = "Resize" /\ pc' # pc)
        => (mode.tag # "Exit" /\ pc' = "render" /\ mode' = mode)]_vars

\* A Resize event routed and the next render begun or done, with an error
\* pending, a key recorded, a payload in the mode and text on the clipboard.
C18_Witness ==
  /\ pc \in {"render", "wait"}
  /\ event.kind = "Resize"
  /\ renders >= 2
  /\ error \in HandlerErrors
  /\ last_key \in Keys
  /\ mode.tag = "Open"
  /\ clipboard = "inline"

\* C20: a render step leaves the pending error and the active mode
\* variant as they were, so a drawing failure it shows is not stored and a
\* pending error it shows is not cleared; the pending error changes only
\* in the step that routes a Key event, and until then every render that
\* draws without failure shows it again.
C20_RenderKeepsPendingError ==
  /\ [][(pc = "render" /\ pc' # pc)
        => (error' = error /\ mode'.tag = mode.tag)]_vars
  /\ [][error' # error
        => (pc = "wait" /\ received' # received /\ event'.kind = "Key")]_vars
  /\ [][(pc = "render" /\ pc' = "wait" /\ drawn' = "ok" /\ error # NoError)
        => shown' = error]_vars

\* The error a key left pending was shown by the render after the key, and
\* is shown again by the render after a Resize event.
C20_Witness ==
  /\ pc = "wait"
  /\ renders = 3
  /\ received = 2
  /\ event.kind = "Resize"
  /\ drawn = "ok"
  /\ error \in HandlerErrors
  /\ shown = error

\* C19 as stated, in the form a finite run decides: until run has returned
\* the loop can take its next step (render, receive and route a queued
\* event, test the mode) or is blocked on an empty queue, so that every
\* queued event is reached in turn and a key that sets the mode to Exit
\* ends the loop; and run has returned only with the mode Exit.
C19_LoopsUntilExit ==
  /\ pc # "done" =>
       \/ pc = "wait" /\ queue = <<>>
       \/ ENABLED (Render \/ WaitForEvent \/ CheckExit)
  /\ pc = "done" => mode.tag = "Exit"

====
